---------------------------- MODULE Spec2Model ----------------------------
(***************************************************************************)
(* Model of tagger/tagger.py: Tag, MultiTag, Reader, Rater and Tagger.     *)
(*                                                                         *)
(* Strings are sequences of one-character strings, so that joining with    *)
(* ' ', str.split() and len() are computed as the code computes them.      *)
(*                                                                         *)
(* Ratings are exact.  The record [p |-> P, r |-> R] denotes the real      *)
(* number P^(1/R) / (WeightScale * len(tags)): rate_tags gives every unit  *)
(* tag the rating count * weight / len(tags), so all the ratings of one    *)
(* call share that denominator, and the geometric mean of k unit ratings   *)
(* with numerators n1..nk is (n1*...*nk)^(1/k) over the same denominator.  *)
(* Floating-point rounding of the k-th root is not modelled.               *)
(***************************************************************************)
EXTENDS Integers, Sequences, FiniteSets, TLC

VARIABLES
    pc,             \* position in Rater.__init__ / Rater.__call__ / Tagger.__call__
    multitag_size,  \* Rater.multitag_size
    text,           \* the string handed to Reader.__call__
    tags,           \* the list of (stemmed) tags handed to Rater.__call__
    multitags,      \* the list returned by create_multitags
    origin,         \* origin[k] = index in tags of the first unit of multitags[k]
    term_count,     \* Counter(multitags): insertion-ordered <<[t, cnt], ...>>
    unique_tags,    \* the set unique_tags of Rater.__call__
    rated,          \* the list returned by Rater.__call__
    tags_number,    \* the argument tags_number of Tagger.__call__
    returned        \* the list returned by Tagger.__call__

vars == <<pc, multitag_size, text, tags, multitags, origin, term_count,
          unique_tags, rated, tags_number, returned>>

(***************************************************************************)
(* Bounds of the model.                                                    *)
(***************************************************************************)
MaxLen == 3         \* longest tag list handed to the Rater
MaxK == 3           \* largest multitag_size a Rater is constructed with
MaxN == 2           \* largest tags_number asked of the Tagger
MaxText == 5        \* longest text handed to the Reader
BigramCount == 5    \* occurrences of the bigram in the documents of BigramDocs
MaxExtra == 6       \* most occurrences of its first word outside the bigram
WeightScale == 2    \* weights are multiples of 1 / WeightScale

\* Rater.__init__: the default of multitag_size
DefaultMultitagSize == 3

(***************************************************************************)
(* Words of the documents, and the weights dictionary given to the Rater.  *)
(***************************************************************************)
word_the == <<"t", "h", "e">>
word_york == <<"y", "o", "r", "k">>
word_a == <<"a">>
word_new == <<"n", "e", "w">>
word_of == <<"o", "f">>
Words == {word_the, word_york, word_a}

\* weights = {'the': 0.0, 'of': 0.0, 'york': 1.0 / WeightScale}, in units of
\* 1 / WeightScale; 'a' and 'new' are not in the dictionary
weights == (word_the :> 0) @@ (word_of :> 0) @@ (word_york :> 1)

NoRating == [p |-> 0, r |-> 1]

----------------------------------------------------------------------------
(***************************************************************************)
(* Arithmetic on ratings.                                                  *)
(***************************************************************************)
RECURSIVE Gcd(_, _)
Gcd(x, y) == IF y = 0 THEN x ELSE Gcd(y, x % y)

Lcm(x, y) == (x * y) \div Gcd(x, y)

\* Natural numbers of any size, as their digits in base 10000, the least
\* significant first and without leading zeros (0 is <<>>): the powers that
\* compare two roots exactly do not fit the integers of the model checker.
RECURSIVE BigTimes(_, _, _)
BigTimes(ds, m, carry) ==
    IF ds = <<>>
    THEN (IF carry = 0 THEN <<>> ELSE <<carry>>)
    ELSE LET v == Head(ds) * m + carry
         IN  <<v % 10000>> \o BigTimes(Tail(ds), m, v \div 10000)

RECURSIVE BigPow(_, _)
BigPow(b, e) ==
    IF b = 0 THEN <<>>
    ELSE IF e = 0 THEN <<1>>
    ELSE BigTimes(BigPow(b, e - 1), b, 0)

RECURSIVE BigGt(_, _)
BigGt(x, y) ==
    IF Len(x) # Len(y) THEN Len(x) > Len(y)
    ELSE IF x = <<>> THEN FALSE
    ELSE IF x[Len(x)] # y[Len(y)] THEN x[Len(x)] > y[Len(y)]
    ELSE BigGt(SubSeq(x, 1, Len(x) - 1), SubSeq(y, 1, Len(y) - 1))

\* x > y for two ratings (the float comparison x.rating > y.rating):
\* P^(1/R) > Q^(1/S) iff P^(L/R) > Q^(L/S), L a common multiple of R and S
RatingGt(x, y) ==
    LET L == Lcm(x.r, y.r)
    IN  BigGt(BigPow(x.p, L \div x.r), BigPow(y.p, L \div y.r))

\* x > 0.0
RatingPositive(x) == x.p > 0

\* max(x, y) of Python: y only if y > x
RatingMax(x, y) == IF RatingGt(y, x) THEN y ELSE x

\* reduce(lambda x, y: x * y, ratings, 1.0) on unit ratings
RECURSIVE Product(_)
Product(rs) == IF rs = <<>> THEN 1 ELSE Head(rs).p * Product(Tail(rs))

----------------------------------------------------------------------------
(***************************************************************************)
(* Strings.                                                                *)
(***************************************************************************)
\* ' '.join([x, y])
Join(x, y) == x \o <<" ">> \o y

\* ' '.join(words)
RECURSIVE JoinAll(_)
JoinAll(ws) ==
    IF ws = <<>> THEN <<>>
    ELSE IF Len(ws) = 1 THEN ws[1]
    ELSE Join(ws[1], JoinAll(Tail(ws)))

\* str.split(): the maximal runs of non-blank characters
RECURSIVE SplitFrom(_, _, _)
SplitFrom(s, k, cur) ==
    IF k > Len(s) THEN (IF cur = <<>> THEN <<>> ELSE <<cur>>)
    ELSE IF s[k] = " "
         THEN (IF cur = <<>> THEN <<>> ELSE <<cur>>) \o SplitFrom(s, k + 1, <<>>)
         ELSE SplitFrom(s, k + 1, Append(cur, s[k]))

Split(s) == SplitFrom(s, 1, <<>>)

----------------------------------------------------------------------------
(***************************************************************************)
(* Tag and MultiTag.                                                       *)
(***************************************************************************)
\* Tag.__init__
Tag(string, stem, rating, proper, terminal) ==
    [string |-> string, stem |-> IF stem = <<>> THEN string ELSE stem,
     rating |-> rating, proper |-> proper, terminal |-> terminal]

\* Tag.__eq__ (and __hash__): tags are the same key when their stems are equal
TagEq(x, y) == x.stem = y.stem

\* (variant: the lower rating first)
TagLtAscending(x, y) == RatingGt(y.rating, x.rating)

\* Tag.__lt__: x < y when x is rated higher
TagLt(x, y) == RatingGt(x.rating, y.rating)

\* (variant: the plain geometric mean, without the treatment of proper nouns)
combined_rating_plain(subratings, size, proper) ==
    [p |-> Product(subratings), r |-> size]

\* MultiTag.combined_rating
combined_rating(subratings, size, proper) ==
    LET product == Product(subratings)
        nonzero == SelectSeq(subratings, LAMBDA x : RatingPositive(x))
    IN  IF product = 0 /\ proper
        THEN IF Len(nonzero) = 0
             THEN NoRating
             ELSE [p |-> Product(nonzero), r |-> Len(nonzero)]
        ELSE [p |-> product, r |-> size]

\* MultiTag.__init__ without a head
UnitMultiTag(tail) ==
    [string |-> tail.string, stem |-> IF tail.stem = <<>> THEN tail.string ELSE tail.stem,
     rating |-> tail.rating, proper |-> tail.proper, terminal |-> tail.terminal,
     size |-> 1, subratings |-> <<tail.rating>>]

\* MultiTag.__init__ extending a head
ExtendMultiTag(tail, head) ==
    LET proper == head.proper /\ tail.proper
        subratings == Append(head.subratings, tail.rating)
        size == head.size + 1
    IN  [string |-> Join(head.string, tail.string),
         stem |-> Join(head.stem, tail.stem),
         rating |-> combined_rating(subratings, size, proper),
         proper |-> proper, terminal |-> tail.terminal,
         size |-> size, subratings |-> subratings]

----------------------------------------------------------------------------
(***************************************************************************)
(* Reader.                                                                 *)
(***************************************************************************)
Uppers == <<"A", "B", "C", "D", "E", "F", "G", "H", "I", "J", "K", "L", "M",
            "N", "O", "P", "Q", "R", "S", "T", "U", "V", "W", "X", "Y", "Z">>
Lowers == <<"a", "b", "c", "d", "e", "f", "g", "h", "i", "j", "k", "l", "m",
            "n", "o", "p", "q", "r", "s", "t", "u", "v", "w", "x", "y", "z">>
Digits == {"0", "1", "2", "3", "4", "5", "6", "7", "8", "9"}

UpperSet == {Uppers[x] : x \in DOMAIN Uppers}
LowerSet == {Lowers[x] : x \in DOMAIN Lowers}

\* c.isupper()
IsUpper(c) == c \in UpperSet

\* c.lower()
LowerChar(c) ==
    IF IsUpper(c) THEN Lowers[CHOOSE x \in DOMAIN Uppers : Uppers[x] = c] ELSE c

\* word.lower()
Lower(word) == [k \in DOMAIN word |-> LowerChar(word[k])]

\* the class \w
IsW(c) == c \in UpperSet \cup LowerSet \cup Digits \cup {"_"}

\* match_paragraphs, match_phrases and match_words: the characters they match
ParagraphSeps == {".", "?", "!", "\t", "\n", "\r", "\f"}
PhraseSeps == {",", ";", ":", "(", ")", "[", "]", "{", "}", "<", ">"}
IsWordChar(c) == IsW(c) \/ c \in {"-", "'", "_", "/", "&"}

\* the characters of match_apostrophes, the grave accent and the right single
\* quotation mark, each written here as one named element of a string
Grave == "grave"
RightQuote == "rsquo"

\* Reader.preprocess: match_apostrophes.sub('\'', text)
preprocess(txt) ==
    [k \in DOMAIN txt |-> IF txt[k] \in {Grave, RightQuote} THEN "'" ELSE txt[k]]

\* pattern.split(s) for a pattern [seps]+: the pieces between the runs of
\* separators, the empty ones at both ends included
RECURSIVE SplitRuns(_, _, _, _, _)
SplitRuns(s, seps, k, cur, inrun) ==
    IF k > Len(s) THEN <<cur>>
    ELSE IF s[k] \in seps
         THEN IF inrun
              THEN SplitRuns(s, seps, k + 1, cur, TRUE)
              ELSE <<cur>> \o SplitRuns(s, seps, k + 1, <<>>, TRUE)
         ELSE SplitRuns(s, seps, k + 1, Append(cur, s[k]), FALSE)

ReSplit(s, seps) == SplitRuns(s, seps, 1, <<>>, FALSE)

\* match_words.findall(phrase): the maximal runs of word characters
RECURSIVE FindWords(_, _, _)
FindWords(s, k, cur) ==
    IF k > Len(s) THEN (IF cur = <<>> THEN <<>> ELSE <<cur>>)
    ELSE IF IsWordChar(s[k])
         THEN FindWords(s, k + 1, Append(cur, s[k]))
         ELSE (IF cur = <<>> THEN <<>> ELSE <<cur>>) \o FindWords(s, k + 1, <<>>)

\* the length of the longest prefix of word made of \w characters
RECURSIVE LeadingW(_)
LeadingW(word) ==
    IF word = <<>> \/ ~IsW(Head(word)) THEN 0 ELSE 1 + LeadingW(Tail(word))

\* Reader.clean_word: lowercase, and cut at the apostrophe that follows the
\* leading \w characters (match_contractions.match, group 1)
clean_word(word) ==
    LET w == Lower(word)
        n == LeadingW(w)
    IN  IF n >= 1 /\ n < Len(w) /\ w[n + 1] = "'" THEN SubSeq(w, 1, n) ELSE w

\* Tag(self.clean_word(w), proper=w[0].isupper())
ProperWord(w, terminal) ==
    [string |-> clean_word(w), proper |-> IsUpper(w[1]), terminal |-> terminal]

\* Tag(self.clean_word(w)): proper keeps its default
PlainWord(w, terminal) ==
    [string |-> clean_word(w), proper |-> FALSE, terminal |-> terminal]

\* (variant: the first word of the paragraph is treated like the others)
FirstPhraseTagsAllProper(words) ==
    [k \in DOMAIN words |-> ProperWord(words[k], k = Len(words))]

\* lines 203-212: the first phrase of a paragraph
FirstPhraseTags(words) ==
    IF Len(words) > 1
    THEN <<PlainWord(words[1], FALSE)>>
         \o [k \in 1 .. (Len(words) - 2) |-> ProperWord(words[k + 1], FALSE)]
         \o <<ProperWord(words[Len(words)], TRUE)>>
    ELSE IF Len(words) = 1
    THEN <<PlainWord(words[1], TRUE)>>
    ELSE <<>>

\* lines 216-224: a following phrase
FollowingPhraseTags(words) ==
    (IF Len(words) > 1
     THEN [k \in 1 .. (Len(words) - 1) |-> ProperWord(words[k], FALSE)]
     ELSE <<>>)
    \o (IF Len(words) > 0 THEN <<ProperWord(words[Len(words)], TRUE)>> ELSE <<>>)

RECURSIVE FollowingPhrases(_)
FollowingPhrases(phrases) ==
    IF phrases = <<>> THEN <<>>
    ELSE FollowingPhraseTags(FindWords(Head(phrases), 1, <<>>))
         \o FollowingPhrases(Tail(phrases))

\* lines 199-224: the tags of one paragraph
ParagraphTags(par) ==
    LET phrases == ReSplit(par, PhraseSeps)
    IN  (IF Len(phrases) > 0
         THEN FirstPhraseTags(FindWords(phrases[1], 1, <<>>))
         ELSE <<>>)
        \o FollowingPhrases(Tail(phrases))

RECURSIVE ParagraphsTags(_)
ParagraphsTags(pars) ==
    IF pars = <<>> THEN <<>>
    ELSE ParagraphTags(Head(pars)) \o ParagraphsTags(Tail(pars))

----------------------------------------------------------------------------
(***************************************************************************)
(* Rater.                                                                  *)
(***************************************************************************)
\* Counter(xs)[t] for a list of tags
Count(xs, t) == Cardinality({k \in DOMAIN xs : TagEq(xs[k], t)})

\* self.weights.get(stem, 1.0), in units of 1 / WeightScale
WeightsGet(stem) == IF stem \in DOMAIN weights THEN weights[stem] ELSE WeightScale

\* Rater.rate_tags: t.rating = 1.0 * term_count[t] / len(tags) * weight
rate_tags(tgs) ==
    [k \in DOMAIN tgs |->
        [tgs[k] EXCEPT !.rating =
            [p |-> Count(tgs, tgs[k]) * WeightsGet(tgs[k].stem), r |-> 1]]]

\* (variant: the chain only stops at the end of the list)
ChainBreaksAtEndOnly(t, i, j, tgs) == i + j > Len(tgs)

\* the test that ends a chain in create_multitags (i is 1-based here)
ChainBreaks(t, i, j, tgs) == t.terminal \/ i + j > Len(tgs)

\* (variant: one step too many)
ChainRangeInclusive(K) == 1 .. K

\* range(1, self.multitag_size)
ChainRange(K) == 1 .. (K - 1)

\* the inner loop of create_multitags, from step j with the chain t built so far
RECURSIVE Chain(_, _, _, _, _)
Chain(tgs, K, i, j, t) ==
    IF j \notin ChainRange(K) \/ ChainBreaks(t, i, j, tgs)
    THEN <<>>
    ELSE LET t2 == ExtendMultiTag(tgs[i + j], t)
         IN  <<t2>> \o Chain(tgs, K, i, j + 1, t2)

\* the outer loop of create_multitags: every emitted multitag with its start i
RECURSIVE EmitFrom(_, _, _)
EmitFrom(tgs, K, i) ==
    IF i > Len(tgs) THEN <<>>
    ELSE LET t == UnitMultiTag(tgs[i])
             chain == <<t>> \o Chain(tgs, K, i, 1, t)
         IN  [k \in DOMAIN chain |-> [t |-> chain[k], i |-> i]] \o EmitFrom(tgs, K, i + 1)

\* Rater.create_multitags
create_multitags(tgs, K) ==
    LET e == EmitFrom(tgs, K, 1) IN [k \in DOMAIN e |-> e[k].t]

\* the start position of each multitag of create_multitags
create_multitags_origin(tgs, K) ==
    LET e == EmitFrom(tgs, K, 1) IN [k \in DOMAIN e |-> e[k].i]

\* the indices of the multitags equal to t (the cluster of t)
Group(ms, t) == {k \in DOMAIN ms : TagEq(ms[k], t)}

\* clusters[t].most_common(1)[0][0]: the most frequent string of the cluster,
\* the first seen among the equally frequent ones
most_common_string(ms, t) ==
    LET g == Group(ms, t)
        n(k) == Cardinality({m \in g : ms[m].string = ms[k].string})
        best == {k \in g : \A m \in g : n(k) >= n(m)}
        first == CHOOSE k \in best : \A m \in best : k <= m
    IN  ms[first].string

\* proper[t]: the number of proper occurrences in the cluster of t
proper_count(ms, t) == Cardinality({k \in Group(ms, t) : ms[k].proper})

\* ratings[t]: the highest rating of a proper occurrence, from 0.0
RECURSIVE max_proper_rating(_, _, _)
max_proper_rating(ms, t, k) ==
    IF k = 0 THEN NoRating
    ELSE LET rest == max_proper_rating(ms, t, k - 1)
         IN  IF TagEq(ms[k], t) /\ ms[k].proper
             THEN RatingMax(rest, ms[k].rating)
             ELSE rest

\* proper_freq >= 0.5, with proper_freq = proper[t] / cnt
ProperEnough(np, cnt) == 2 * np >= cnt

\* lines 351-356: the cluster's key (its first occurrence) is given the most
\* common string and, when proper often enough, the proper flag and rating
Canonical(ms, t, cnt) ==
    LET named == [t EXCEPT !.string = most_common_string(ms, t)]
    IN  IF ProperEnough(proper_count(ms, t), cnt)
        THEN [named EXCEPT !.proper = TRUE,
                           !.rating = max_proper_rating(ms, t, Len(ms))]
        ELSE named

\* term_count = Counter(multitags) after lines 351-356: one entry per stem, in
\* the order of first occurrence, keyed by the first occurrence
Cluster(ms) ==
    LET firsts == SelectSeq([k \in DOMAIN ms |-> k],
                            LAMBDA k : \A m \in 1 .. (k - 1) : ~TagEq(ms[m], ms[k]))
    IN  [x \in DOMAIN firsts |->
            LET t == ms[firsts[x]]
                cnt == Cardinality(Group(ms, t))
            IN  [t |-> Canonical(ms, t, cnt), cnt |-> cnt]]

\* (variant: the rating is not looked at)
QualifiesByLengthOnly(t) == Len(t.string) > 1

\* the test of lines 359-360
Qualifies(t) == Len(t.string) > 1 /\ RatingPositive(t.rating)

\* lines 359-360: purge duplicates, one-character tags and stopwords
Purge(tc) == {tc[k].t : k \in {m \in DOMAIN tc : Qualifies(tc[m].t)}}

\* term_count[s]: 0 for a missing key
CounterGet(tc, s) ==
    IF \E k \in DOMAIN tc : TagEq(tc[k].t, s)
    THEN tc[CHOOSE k \in DOMAIN tc : TagEq(tc[k].t, s)].cnt
    ELSE 0

\* unique_tags.discard(s)
Discard(unique, s) == {u \in unique : ~TagEq(u, s)}

\* (variant: the sub-span is dropped at any relative frequency)
DominatesAlways(t, cnt, cs) ==
    t.proper \/ RatingPositive(t.rating)

\* (variant: the sub-span is dropped only at relative frequency 1.0)
DominatesAtFullFrequency(t, cnt, cs) ==
    cnt = cs /\ (t.proper \/ RatingPositive(t.rating))

\* the test of lines 369-370, with relative_freq = cnt / cs
Dominates(t, cnt, cs) ==
    (cnt = cs /\ t.proper) \/ (2 * cnt >= cs /\ RatingPositive(t.rating))

\* the sub-spans (l, i) of n words in the order of the loops of lines 365-366
RECURSIVE SubSpans(_, _, _)
SubSpans(n, l, i) ==
    IF l >= n THEN <<>>
    ELSE IF i > n - l THEN SubSpans(n, l + 1, 0)
    ELSE <<[l |-> l, i |-> i]>> \o SubSpans(n, l, i + 1)

\* s = Tag(' '.join(words[i:i + l]))
SubSpanTag(words, sp) ==
    Tag(JoinAll(SubSeq(words, sp.i + 1, sp.i + sp.l)), <<>>, NoRating, FALSE, FALSE)

\* (variant: only a tag that is still in unique_tags prunes)
RECURSIVE PruneSpansOfSurviving(_, _, _, _, _)
PruneSpansOfSurviving(unique, tc, e, words, spans) ==
    IF spans = <<>> \/ ~(\E u \in unique : TagEq(u, e.t)) THEN unique
    ELSE LET s == SubSpanTag(words, Head(spans))
         IN  PruneSpansOfSurviving(IF Dominates(e.t, e.cnt, CounterGet(tc, s))
                                   THEN Discard(unique, s)
                                   ELSE Discard(unique, e.t),
                                   tc, e, words, Tail(spans))

\* lines 367-373 for one entry of term_count and a list of sub-spans
RECURSIVE PruneSpans(_, _, _, _, _)
PruneSpans(unique, tc, e, words, spans) ==
    IF spans = <<>> THEN unique
    ELSE LET s == SubSpanTag(words, Head(spans))
         IN  PruneSpans(IF Dominates(e.t, e.cnt, CounterGet(tc, s))
                        THEN Discard(unique, s)
                        ELSE Discard(unique, e.t),
                        tc, e, words, Tail(spans))

\* lines 363-373: remove redundant tags, entry k of term_count onwards
RECURSIVE RemoveRedundant(_, _, _)
RemoveRedundant(unique, tc, k) ==
    IF k > Len(tc) THEN unique
    ELSE LET words == Split(tc[k].t.stem)
         IN  RemoveRedundant(PruneSpans(unique, tc, tc[k], words,
                                        SubSpans(Len(words), 1, 0)),
                             tc, k + 1)

\* a lookup term_count[s] of the pruning would divide by zero
DividesByZero(tc) ==
    \E k \in DOMAIN tc :
        LET words == Split(tc[k].t.stem)
            spans == SubSpans(Len(words), 1, 0)
        IN  \E x \in DOMAIN spans : CounterGet(tc, SubSpanTag(words, spans[x])) = 0

\* the orders in which a set may be iterated
RECURSIVE Orders(_)
Orders(S) ==
    IF S = {} THEN {<<>>}
    ELSE UNION {{<<x>> \o o : o \in Orders(S \ {x})} : x \in S}

\* x goes before the first element it is less than (a stable insertion)
RECURSIVE Insert(_, _)
Insert(xs, x) ==
    IF xs = <<>> THEN <<x>>
    ELSE IF TagLt(x, Head(xs)) THEN <<x>> \o xs
    ELSE <<Head(xs)>> \o Insert(Tail(xs), x)

\* sorted(xs): stable, by Tag.__lt__
RECURSIVE Sorted(_)
Sorted(xs) ==
    IF xs = <<>> THEN <<>>
    ELSE Insert(Sorted(SubSeq(xs, 1, Len(xs) - 1)), xs[Len(xs)])

\* tags[:n]
Slice(xs, n) ==
    IF n >= 0
    THEN SubSeq(xs, 1, IF n < Len(xs) THEN n ELSE Len(xs))
    ELSE SubSeq(xs, 1, Len(xs) + n)

----------------------------------------------------------------------------
(***************************************************************************)
(* The tag lists given to the Rater: every list of at most MaxLen unit     *)
(* tags over Words, each proper or not and terminal or not, as a Reader    *)
(* and a Stemmer hand them over (the stem of each of these words is the    *)
(* word itself; the rating is still the default of Tag.__init__).          *)
(***************************************************************************)
DefaultRating(n) == [p |-> WeightScale * n, r |-> 1]

UnitTags(n) ==
    {Tag(w, w, DefaultRating(n), pr, tm) : w \in Words, pr \in BOOLEAN, tm \in BOOLEAN}

TagLists == UNION {[1 .. n -> UnitTags(n)] : n \in 0 .. MaxLen}

\* n copies of the list xs
RECURSIVE Repeat(_, _)
Repeat(xs, n) == IF n = 0 THEN <<>> ELSE xs \o Repeat(xs, n - 1)

\* Documents about one proper bigram "first second": it occurs BigramCount
\* times, each time as the end of a phrase, in `prefixed` of them after the
\* word `prefix` in the same phrase; the second word occurs nowhere else; the
\* first word occurs `extra` more times as a phrase of its own.
BigramDoc(first, second, prefix, prefixed, extra) ==
    LET n == 2 * BigramCount + prefixed + extra
        pair == <<Tag(first, first, DefaultRating(n), TRUE, FALSE),
                  Tag(second, second, DefaultRating(n), TRUE, TRUE)>>
        lead == <<Tag(prefix, prefix, DefaultRating(n), FALSE, FALSE)>>
        alone == <<Tag(first, first, DefaultRating(n), FALSE, TRUE)>>
    IN  Repeat(lead \o pair, prefixed)
        \o Repeat(pair, BigramCount - prefixed)
        \o Repeat(alone, extra)

BigramDocs ==
    {BigramDoc(first, second, prefix, prefixed, extra) :
        first \in {word_new, word_the}, second \in {word_york, word_of},
        prefix \in {word_a, word_the}, prefixed \in 0 .. BigramCount,
        extra \in 0 .. MaxExtra}

\* Reader.__call__: the tags of the text, in the order of the text, each with
\* the stem and the rating that Tag.__init__ gives by default
Reader(txt) ==
    LET found == ParagraphsTags(ReSplit(preprocess(txt), ParagraphSeps))
    IN  [k \in DOMAIN found |->
            Tag(found[k].string, <<>>, DefaultRating(Len(found)),
                found[k].proper, found[k].terminal)]

\* the texts given to the Reader: every string of at most MaxText characters
\* over an upper case and a lower case letter, a blank, a phrase separator,
\* a paragraph separator and a grave accent
TextChars == {"Y", "y", " ", ",", ".", Grave}

Texts == UNION {[1 .. n -> TextChars] : n \in 0 .. MaxText}

----------------------------------------------------------------------------
(***************************************************************************)
(* The state machine: a Rater is constructed, then called on a tag list by *)
(* Tagger.__call__, which returns the first tags_number tags.              *)
(***************************************************************************)
Init ==
    /\ pc = "start"
    /\ multitag_size = 0
    /\ text = <<>>
    /\ tags = <<>>
    /\ multitags = <<>>
    /\ origin = <<>>
    /\ term_count = <<>>
    /\ unique_tags = {}
    /\ rated = <<>>
    /\ tags_number = 0
    /\ returned = <<>>

\* Rater.__init__: any multitag_size is stored
RaterInit ==
    /\ pc = "start"
    /\ \E K \in 0 .. MaxK : multitag_size' = K
    /\ pc' = "constructed"
    /\ UNCHANGED <<text, tags, multitags, origin, term_count, unique_tags, rated,
                   tags_number, returned>>

\* Rater.__init__ without a multitag_size: the default is stored
RaterInitDefault ==
    /\ pc = "start"
    /\ multitag_size' = DefaultMultitagSize
    /\ pc' = "constructed"
    /\ UNCHANGED <<text, tags, multitags, origin, term_count, unique_tags, rated,
                   tags_number, returned>>

\* Rater.__call__, line 335: self.rate_tags(tags), for a tag list of the set
RateTagsOf(lists) ==
    /\ pc = "constructed"
    /\ \E tgs \in lists : tags' = rate_tags(tgs)
    /\ pc' = "rate_tags"
    /\ UNCHANGED <<text, multitag_size, multitags, origin, term_count, unique_tags,
                   rated, tags_number, returned>>

RateTags == RateTagsOf(TagLists)

\* Rater.__call__, line 336: multitags = self.create_multitags(tags)
CreateMultitags ==
    /\ pc = "rate_tags"
    /\ multitags' = create_multitags(tags, multitag_size)
    /\ origin' = create_multitags_origin(tags, multitag_size)
    /\ pc' = "create_multitags"
    /\ UNCHANGED <<text, multitag_size, tags, term_count, unique_tags, rated,
                   tags_number, returned>>

\* Rater.__call__, lines 338-356: keep most frequent version of each tag
ClusterTags ==
    /\ pc = "create_multitags"
    /\ term_count' = Cluster(multitags)
    /\ pc' = "clustered"
    /\ UNCHANGED <<text, multitag_size, tags, multitags, origin, unique_tags, rated,
                   tags_number, returned>>

\* Rater.__call__, lines 358-360
PurgeTags ==
    /\ pc = "clustered"
    /\ unique_tags' = Purge(term_count)
    /\ pc' = "purged"
    /\ UNCHANGED <<text, multitag_size, tags, multitags, origin, term_count, rated,
                   tags_number, returned>>

\* Rater.__call__, lines 362-373
RemoveRedundantTags ==
    /\ pc = "purged"
    /\ IF DividesByZero(term_count)
       THEN pc' = "ZeroDivisionError" /\ UNCHANGED unique_tags
       ELSE pc' = "pruned" /\ unique_tags' = RemoveRedundant(unique_tags, term_count, 1)
    /\ UNCHANGED <<text, multitag_size, tags, multitags, origin, term_count, rated,
                   tags_number, returned>>

\* Rater.__call__, line 375: sorted(unique_tags), the set being iterated in
\* an order that depends on the hashes of the stems
SortTags ==
    /\ pc = "pruned"
    /\ \E o \in Orders(unique_tags) : rated' = Sorted(o)
    /\ pc' = "rated"
    /\ UNCHANGED <<text, multitag_size, tags, multitags, origin, term_count,
                   unique_tags, tags_number, returned>>

\* Tagger.__call__, line 443: return tags[:tags_number]
TaggerReturn ==
    /\ pc = "rated"
    /\ \E n \in -1 .. MaxN :
          /\ tags_number' = n
          /\ returned' = Slice(rated, n)
    /\ pc' = "returned"
    /\ UNCHANGED <<text, multitag_size, tags, multitags, origin, term_count,
                   unique_tags, rated>>

Next ==
    \/ RaterInit
    \/ RateTags
    \/ CreateMultitags
    \/ ClusterTags
    \/ PurgeTags
    \/ RemoveRedundantTags
    \/ SortTags
    \/ TaggerReturn

Spec == Init /\ [][Next]_vars

(***************************************************************************)
(* The Rater on the documents of BigramDocs.                               *)
(***************************************************************************)
RateTagsBigram == RateTagsOf(BigramDocs)

NextBigram ==
    \/ RaterInit
    \/ RateTagsBigram
    \/ CreateMultitags
    \/ ClusterTags
    \/ PurgeTags
    \/ RemoveRedundantTags
    \/ SortTags
    \/ TaggerReturn

SpecBigram == Init /\ [][NextBigram]_vars

(***************************************************************************)
(* A Rater of the default multitag_size, up to the end of the pruning.     *)
(***************************************************************************)
NextDefault ==
    \/ RaterInitDefault
    \/ RateTags
    \/ CreateMultitags
    \/ ClusterTags
    \/ PurgeTags
    \/ RemoveRedundantTags

SpecDefault == Init /\ [][NextDefault]_vars

(***************************************************************************)
(* The Reader on its own: a text is read into tags.                        *)
(***************************************************************************)
InitReader ==
    /\ pc = "text"
    /\ text \in Texts
    /\ multitag_size = 0
    /\ tags = <<>>
    /\ multitags = <<>>
    /\ origin = <<>>
    /\ term_count = <<>>
    /\ unique_tags = {}
    /\ rated = <<>>
    /\ tags_number = 0
    /\ returned = <<>>

\* Tagger.__call__, line 439: tags = self.reader(text)
ReaderCall ==
    /\ pc = "text"
    /\ tags' = Reader(text)
    /\ pc' = "read"
    /\ UNCHANGED <<text, multitag_size, multitags, origin, term_count,
                   unique_tags, rated, tags_number, returned>>

NextReader == ReaderCall

SpecReader == InitReader /\ [][NextReader]_vars

----------------------------------------------------------------------------
(***************************************************************************)
(* Properties.                                                             *)
(***************************************************************************)
\* the positions of tags covered by multitags[k]
SpanOf(k) == origin[k] .. (origin[k] + multitags[k].size - 1)

\* multitags[k] is built from the consecutive tags of SpanOf(k)
BuiltFromSpan(k) ==
    /\ origin[k] >= 1
    /\ origin[k] + multitags[k].size - 1 <= Len(tags)
    /\ multitags[k].stem =
           JoinAll([x \in 1 .. multitags[k].size |-> tags[origin[k] + x - 1].stem])

\* C1: for every tag list and every multitag_size K >= 1, no multitag made by
\* create_multitags spans across a terminal tag: of the consecutive tags it is
\* built from, only the last may be terminal.
C1_NoMultitagAcrossTerminal ==
    (pc = "create_multitags" /\ multitag_size >= 1) =>
        \A k \in DOMAIN multitags :
            /\ BuiltFromSpan(k)
            /\ \A x \in SpanOf(k) \ {origin[k] + multitags[k].size - 1} :
                   ~tags[x].terminal

\* a terminal tag is followed by another tag, and n-grams have been made
C1_Witness ==
    /\ pc = "create_multitags"
    /\ multitag_size >= 2
    /\ \E x \in 1 .. (Len(tags) - 1) : tags[x].terminal
    /\ \E k \in DOMAIN multitags : multitags[k].size >= 2

\* the pairs (start i, length l), i counted from 1, that fit the list and the
\* maximum length K and have no terminal tag among their first l - 1 tags
ValidSpans(tgs, K) ==
    {sp \in (1 .. Len(tgs)) \X (1 .. K) :
        /\ sp[1] + sp[2] - 1 <= Len(tgs)
        /\ \A x \in sp[1] .. (sp[1] + sp[2] - 2) : ~tgs[x].terminal}

\* C2: for K >= 1, create_multitags emits exactly one multitag for each pair
\* (start, length) that fits, has length at most K and no terminal tag among
\* its first length - 1 tags, and nothing else; so every multitag has between
\* 1 and K words, and with K = 1 none has more than one word.
C2_ExactlyTheValidSpans ==
    (pc = "create_multitags" /\ multitag_size >= 1) =>
        /\ \A k \in DOMAIN multitags :
               /\ BuiltFromSpan(k)
               /\ <<origin[k], multitags[k].size>> \in ValidSpans(tags, multitag_size)
               /\ Len(Split(multitags[k].stem)) = multitags[k].size
               /\ multitags[k].size >= 1
               /\ multitags[k].size <= multitag_size
        /\ \A sp \in ValidSpans(tags, multitag_size) :
               Cardinality({k \in DOMAIN multitags :
                               origin[k] = sp[1] /\ multitags[k].size = sp[2]}) = 1
        /\ Len(multitags) = Cardinality(ValidSpans(tags, multitag_size))
        /\ (multitag_size = 1 =>
               \A k \in DOMAIN multitags : Len(Split(multitags[k].string)) = 1)

\* a chain is cut short by K while the list and the phrase go on
C2_Witness ==
    /\ pc = "create_multitags"
    /\ multitag_size = 2
    /\ Len(tags) = 3
    /\ \A x \in DOMAIN tags : ~tags[x].terminal
    /\ Len(multitags) = 5

\* the tags of a list, as a set
Range(xs) == {xs[k] : k \in DOMAIN xs}

\* the stem is the stem of a tag of the Rater's result
InResult(stem) == \E k \in DOMAIN rated : rated[k].stem = stem

\* C3: every tag in the list returned by Rater.__call__ has a rating greater
\* than 0 and a string longer than one character; a stem whose weight is 0.0
\* is never a tag of the result however frequent it is; and a document whose
\* tags all rate 0 gives an empty result, not an error.
C3_ResultPositiveAndLongerThanOne ==
    /\ pc \in {"rated", "returned"} =>
          /\ \A k \in DOMAIN rated :
                 /\ RatingPositive(rated[k].rating)
                 /\ Len(rated[k].string) > 1
                 /\ WeightsGet(rated[k].stem) # 0
          /\ (\A x \in DOMAIN tags : ~RatingPositive(tags[x].rating)) => rated = <<>>
    /\ (\A x \in DOMAIN tags : ~RatingPositive(tags[x].rating))
          => pc # "ZeroDivisionError"

\* the most frequent stem has weight 0.0, a one-character tag rates above 0,
\* and both are left out of a result that is not empty
C3_Witness ==
    /\ pc = "rated"
    /\ rated # <<>>
    /\ \E x \in DOMAIN tags :
           /\ WeightsGet(tags[x].stem) = 0
           /\ \A y \in DOMAIN tags : Count(tags, tags[x]) >= Count(tags, tags[y])
           /\ Count(tags, tags[x]) >= 2
    /\ \E k \in DOMAIN term_count :
           Len(term_count[k].t.string) = 1 /\ RatingPositive(term_count[k].t.rating)

----------------------------------------------------------------------------
\* the positions where the bigram "x y" occurs: x, not terminal, then y
BigramAt(x, y) ==
    {k \in 1 .. (Len(tags) - 1) :
        tags[k].stem = x /\ ~tags[k].terminal /\ tags[k + 1].stem = y}

\* "x y" is a proper bigram that occurs BigramCount times, and y occurs
\* nowhere outside it
BigramHypothesis(x, y) ==
    /\ Cardinality(BigramAt(x, y)) = BigramCount
    /\ \A k \in BigramAt(x, y) : tags[k].proper /\ tags[k + 1].proper
    /\ \A k \in DOMAIN tags : tags[k].stem = y => k > 1 /\ (k - 1) \in BigramAt(x, y)

\* the stems of the unit tags of the document
UnitStems == {tags[k].stem : k \in DOMAIN tags}

\* the words of `part` are consecutive words of `whole`
SubSpanOf(part, whole) ==
    \E i \in 0 .. (Len(whole) - Len(part)) :
        SubSeq(whole, i + 1, i + Len(part)) = part

\* a longer group that contains the bigram and whose test of lines 369-370
\* drops it
DominatedByLonger(x, y) ==
    \E k \in DOMAIN term_count :
        LET t == term_count[k].t IN
        /\ t.size > 2
        /\ SubSpanOf(<<x, y>>, Split(t.stem))
        /\ \/ (term_count[k].cnt = BigramCount /\ t.proper)
           \/ (2 * term_count[k].cnt >= BigramCount /\ RatingPositive(t.rating))

\* C4 as stated: whatever else the document contains, the result keeps the
\* bigram and does not contain its second word on its own.
C4_BigramKeptWhateverElse ==
    (pc = "rated" /\ multitag_size >= 2) =>
        \A x, y \in UnitStems :
            BigramHypothesis(x, y) => InResult(Join(x, y)) /\ ~InResult(y)

\* C4 as the Rater has it, for a multitag size of 2 or more: the result never
\* contains the second word on its own; it keeps the bigram exactly when the
\* weights of its two words are not both 0, the first word occurs at most
\* twice as often as the bigram, and no longer multitag that contains the
\* bigram dominates it.
C4_BigramKeptUnlessOutweighed ==
    (pc = "rated" /\ multitag_size >= 2) =>
        \A x, y \in UnitStems :
            BigramHypothesis(x, y) =>
                /\ ~InResult(y)
                /\ InResult(Join(x, y)) <=>
                       /\ (WeightsGet(x) # 0 \/ WeightsGet(y) # 0)
                       /\ Cardinality({k \in DOMAIN tags : tags[k].stem = x})
                              <= 2 * BigramCount
                       /\ ~DominatedByLonger(x, y)

\* the bigram is kept although its first word also occurs outside it and a
\* longer multitag contains it
C4_Witness ==
    /\ pc = "rated"
    /\ multitag_size >= 3
    /\ BigramHypothesis(word_new, word_york)
    /\ Cardinality({k \in DOMAIN tags : tags[k].stem = word_new}) > BigramCount
    /\ \E k \in DOMAIN term_count :
           term_count[k].t.size > 2
           /\ SubSpanOf(<<word_new, word_york>>, Split(term_count[k].t.stem))
    /\ InResult(Join(word_new, word_york))
    /\ ~InResult(word_york)

----------------------------------------------------------------------------
Min(x, y) == IF x < y THEN x ELSE y

\* C5: Tagger.__call__(text, N) with N >= 0 returns the first N elements of the
\* Rater's result sorted by rating descending: min(N, M) tags, M the number of
\* qualifying tags, with non-increasing ratings, and no qualifying tag that
\* is left out rates strictly higher than a returned one.
C5_FirstNByRating ==
    (pc = "returned" /\ tags_number >= 0) =>
        /\ Len(returned) = Min(tags_number, Cardinality(unique_tags))
        /\ \A k \in DOMAIN returned : returned[k] = rated[k]
        /\ \A j, k \in DOMAIN returned :
               j < k => ~RatingGt(returned[k].rating, returned[j].rating)
        /\ Range(returned) \subseteq unique_tags
        /\ \A u \in unique_tags \ Range(returned) :
               \A k \in DOMAIN returned : ~RatingGt(u.rating, returned[k].rating)

\* fewer tags are asked for than qualify, and a lower rated one is left out
C5_Witness ==
    /\ pc = "returned"
    /\ tags_number >= 1
    /\ Cardinality(unique_tags) > tags_number
    /\ \E u \in unique_tags \ Range(returned) :
           \E k \in DOMAIN returned : RatingGt(returned[k].rating, u.rating)

----------------------------------------------------------------------------
\* C6: the same tags, weights and K give the same output list on every run,
\* the order of equally rated tags included: the result does not depend on
\* the order in which the set unique_tags is iterated.
C6_OutputIndependentOfSetOrder ==
    pc = "rated" => \A o \in Orders(unique_tags) : Sorted(o) = rated

----------------------------------------------------------------------------
\* C7: a Rater with a multitag size smaller than 1 is rejected at
\* construction: no constructed Rater has multitag_size < 1.
C7_SizeBelowOneRejected ==
    pc # "start" => multitag_size >= 1

----------------------------------------------------------------------------
\* the positions of the subratings of m that are 0, and those that are not
ZeroAt(m) == {x \in DOMAIN m.subratings : m.subratings[x].p = 0}
NonZeroAt(m) == DOMAIN m.subratings \ ZeroAt(m)

RECURSIVE ProductAt(_, _)
ProductAt(rs, S) ==
    IF S = {} THEN 1
    ELSE LET x == CHOOSE y \in S : TRUE
         IN  rs[x].p * ProductAt(rs, S \ {x})

\* rating is the geometric mean of the subratings at the positions S:
\* rating ^ |S| is their product
IsGeometricMean(rating, rs, S) ==
    BigPow(rating.p, Cardinality(S)) = BigPow(ProductAt(rs, S), rating.r)

RatingEq(x, y) == ~RatingGt(x, y) /\ ~RatingGt(y, x)

\* C8: combined_rating rescues proper nouns from zero-rated components.  For a
\* proper multitag with a zero and a nonzero subrating the rating is the
\* geometric mean of the nonzero subratings only (one zero and one nonzero
\* subrating give the nonzero one) and is not 0; the rating of a proper
\* multitag is 0 only when all its subratings are 0; for a multitag that is
\* not proper any zero subrating makes the rating 0.
C8_ProperNounRescue ==
    pc = "create_multitags" =>
        \A k \in DOMAIN multitags :
            LET m == multitags[k] IN
            m.size >= 2 =>
                /\ m.subratings = [x \in 1 .. m.size |-> tags[origin[k] + x - 1].rating]
                /\ m.proper = \A x \in SpanOf(k) : tags[x].proper
                /\ (m.proper /\ ZeroAt(m) # {} /\ NonZeroAt(m) # {}) =>
                       /\ IsGeometricMean(m.rating, m.subratings, NonZeroAt(m))
                       /\ RatingPositive(m.rating)
                       /\ Cardinality(NonZeroAt(m)) = 1 =>
                              \A x \in NonZeroAt(m) : RatingEq(m.rating, m.subratings[x])
                /\ m.proper => (~RatingPositive(m.rating) <=> NonZeroAt(m) = {})
                /\ (~m.proper /\ ZeroAt(m) # {}) => ~RatingPositive(m.rating)
                /\ ZeroAt(m) = {} =>
                       IsGeometricMean(m.rating, m.subratings, DOMAIN m.subratings)

\* a proper multitag of three words with one zero-rated component
C8_Witness ==
    /\ pc = "create_multitags"
    /\ \E k \in DOMAIN multitags :
           /\ multitags[k].size = 3
           /\ multitags[k].proper
           /\ Cardinality(ZeroAt(multitags[k])) = 1
           /\ RatingPositive(multitags[k].rating)

----------------------------------------------------------------------------
\* the number of multitags with this stem
Occurrences(stem) == Cardinality({k \in DOMAIN multitags : multitags[k].stem = stem})

\* the stem of the sub-span of l words from word i (counted from 0)
SubSpanStem(words, i, l) == JoinAll(SubSeq(words, i + 1, i + l))

\* relative_freq == 1.0 and t.proper, or relative_freq >= 0.5 and t.rating > 0,
\* with relative_freq = count(t) / count(s)
C9_SubSpanDominated(t, stem) ==
    \/ (Occurrences(t.stem) = Occurrences(stem) /\ t.proper)
    \/ (2 * Occurrences(t.stem) >= Occurrences(stem) /\ RatingPositive(t.rating))

\* C9: in the redundancy pruning, for every group t of L >= 2 words and every
\* contiguous sub-span s of 1..L-1 of its words: if (relative_freq == 1.0 and
\* t.proper) or (relative_freq >= 0.5 and t.rating > 0) then s is absent from
\* the result, otherwise t is; so at least one of t and s is missing.
C9_PruningPerSubSpan ==
    pc = "rated" =>
        \A k \in DOMAIN term_count :
            LET t == term_count[k].t
                words == Split(t.stem)
                L == Len(words)
            IN  \A l \in 1 .. (L - 1) : \A i \in 0 .. (L - l) :
                    LET s == SubSpanStem(words, i, l) IN
                    /\ Occurrences(s) >= 1
                    /\ IF C9_SubSpanDominated(t, s)
                       THEN ~InResult(s)
                       ELSE ~InResult(t.stem)
                    /\ ~(InResult(s) /\ InResult(t.stem))

\* a group of two words or more that occurs in less than half of the
\* occurrences of one of its sub-spans, which stays in the result
C9_Witness ==
    /\ pc = "rated"
    /\ \E k \in DOMAIN term_count :
           LET t == term_count[k].t
               words == Split(t.stem)
               L == Len(words)
           IN  /\ L >= 2
               /\ RatingPositive(t.rating)
               /\ \E l \in 1 .. (L - 1) : \E i \in 0 .. (L - l) :
                      /\ ~C9_SubSpanDominated(t, SubSpanStem(words, i, l))
                      /\ InResult(SubSpanStem(words, i, l))

----------------------------------------------------------------------------
(***************************************************************************)
(* The word tokens of the text by their positions in it.                   *)
(***************************************************************************)
Pre == preprocess(text)

\* the positions where a word token starts, and the k-th of them
WordStarts ==
    {k \in DOMAIN Pre : IsWordChar(Pre[k]) /\ (k = 1 \/ ~IsWordChar(Pre[k - 1]))}

WordStart(j) ==
    CHOOSE k \in WordStarts : Cardinality({m \in WordStarts : m < k}) = j - 1

\* no separator of either kind lies between the positions x and y
SamePhrase(x, y) == \A m \in x .. y : Pre[m] \notin ParagraphSeps \cup PhraseSeps

\* the token at k is the first, the last, the only token of its phrase
FirstOfPhrase(k) == ~\E m \in WordStarts : m < k /\ SamePhrase(m, k)
LastOfPhrase(k) == ~\E m \in WordStarts : m > k /\ SamePhrase(k, m)
OnlyOfPhrase(k) == FirstOfPhrase(k) /\ LastOfPhrase(k)

\* the token at k is in the first phrase of its paragraph: no phrase
\* separator lies between the start of the paragraph and k
InFirstPhrase(k) ==
    ~\E m \in 1 .. k :
        Pre[m] \in PhraseSeps /\ \A x \in m .. k : Pre[x] \notin ParagraphSeps

\* C10 as stated: a phrase of exactly one token gives one terminal tag that is
\* not proper whatever its capitalization, and in a phrase of two tokens or
\* more every token is proper by the capitalization of its original first
\* character; in the first phrase of a paragraph and in the following alike.
C10_ProperByPhraseLength ==
    pc = "read" =>
        /\ Len(tags) = Cardinality(WordStarts)
        /\ \A j \in DOMAIN tags :
               LET k == WordStart(j) IN
               /\ tags[j].terminal = LastOfPhrase(k)
               /\ tags[j].proper = IF OnlyOfPhrase(k) THEN FALSE ELSE IsUpper(Pre[k])

\* C10 as the Reader has it: the last token of every phrase is terminal; the
\* first token of the first phrase of a paragraph is never proper (so a first
\* phrase of one token gives one terminal tag that is not proper); every
\* other token, the only token of a following phrase included, is proper by
\* the capitalization of its original first character.
C10_ProperByPosition ==
    pc = "read" =>
        /\ Len(tags) = Cardinality(WordStarts)
        /\ \A j \in DOMAIN tags :
               LET k == WordStart(j) IN
               /\ tags[j].terminal = LastOfPhrase(k)
               /\ tags[j].proper =
                      IF InFirstPhrase(k) /\ FirstOfPhrase(k)
                      THEN FALSE
                      ELSE IsUpper(Pre[k])

\* a paragraph whose first phrase has two capitalized tokens and whose
\* second phrase has one capitalized token
C10_Witness ==
    /\ pc = "read"
    /\ Len(tags) = 3
    /\ \A k \in WordStarts : IsUpper(Pre[k])
    /\ \A k \in DOMAIN Pre : Pre[k] \notin ParagraphSeps
    /\ InFirstPhrase(WordStart(1)) /\ InFirstPhrase(WordStart(2))
    /\ ~InFirstPhrase(WordStart(3))
    /\ ~tags[1].proper /\ tags[2].proper /\ tags[3].proper

----------------------------------------------------------------------------
(***************************************************************************)
(* The pruning loops of lines 363-373 run in another order: the entries of *)
(* term_count in the order `order` (a list of indices), and the sub-spans  *)
(* of entry k in the order inner[k] (a list of indices into the sub-spans  *)
(* of k in the order of the code).                                         *)
(***************************************************************************)
RECURSIVE RemoveRedundantIn(_, _, _, _)
RemoveRedundantIn(unique, tc, order, inner) ==
    IF order = <<>> THEN unique
    ELSE LET k == Head(order)
             words == Split(tc[k].t.stem)
             spans == SubSpans(Len(words), 1, 0)
             taken == [x \in DOMAIN inner[k] |-> spans[inner[k][x]]]
         IN  RemoveRedundantIn(PruneSpans(unique, tc, tc[k], words, taken),
                               tc, Tail(order), inner)

\* the entries of term_count whose stem has sub-spans (an entry of one word
\* never enters the loops of lines 365-366)
WithSubSpans(tc) == {k \in DOMAIN tc : Len(Split(tc[k].t.stem)) > 1}

\* the orders of the sub-spans of entry k
SubSpanOrders(tc, k) ==
    Orders(DOMAIN SubSpans(Len(Split(tc[k].t.stem)), 1, 0))

\* the choices of an order of its sub-spans for each entry of S
RECURSIVE InnerOrders(_, _)
InnerOrders(tc, S) ==
    IF S = {} THEN {<<>>}
    ELSE LET k == CHOOSE x \in S : TRUE
         IN  {(k :> perm) @@ inner : perm \in SubSpanOrders(tc, k),
                                     inner \in InnerOrders(tc, S \ {k})}

\* C11: the tags left by the pruning of lines 362-373 are the tags left by
\* the same loops run with the entries of term_count in any other order and
\* the sub-spans of each entry in any other order
C11_PruningOrderIndependent ==
    pc = "pruned" =>
        \A order \in Orders(WithSubSpans(term_count)) :
            \A inner \in InnerOrders(term_count, WithSubSpans(term_count)) :
                RemoveRedundantIn(Purge(term_count), term_count, order, inner)
                    = unique_tags

\* the sub-span x of entry k of term_count
SubSpanOfEntry(tc, k, x) ==
    LET words == Split(tc[k].t.stem)
    IN  SubSpanTag(words, SubSpans(Len(words), 1, 0)[x])

\* entry k dominates its sub-span x
DominatesSubSpan(tc, k, x) ==
    Dominates(tc[k].t, tc[k].cnt, CounterGet(tc, SubSpanOfEntry(tc, k, x)))

\* two entries of term_count that passed the purge share a sub-span that
\* passed it too; the one dominates it and the other does not, so the one
\* has discarded the sub-span and the other itself
C11_Witness ==
    /\ pc = "pruned"
    /\ \E k1, k2 \in WithSubSpans(term_count) :
          /\ k1 # k2
          /\ term_count[k1].t \in Purge(term_count)
          /\ term_count[k2].t \in Purge(term_count)
          /\ term_count[k2].t \notin unique_tags
          /\ \E x1 \in DOMAIN SubSpans(Len(Split(term_count[k1].t.stem)), 1, 0),
                x2 \in DOMAIN SubSpans(Len(Split(term_count[k2].t.stem)), 1, 0) :
                /\ TagEq(SubSpanOfEntry(term_count, k1, x1),
                         SubSpanOfEntry(term_count, k2, x2))
                /\ \E u \in Purge(term_count) :
                      TagEq(u, SubSpanOfEntry(term_count, k1, x1))
                /\ \A u \in unique_tags :
                      ~TagEq(u, SubSpanOfEntry(term_count, k1, x1))
                /\ DominatesSubSpan(term_count, k1, x1)
                /\ ~DominatesSubSpan(term_count, k2, x2)

----------------------------------------------------------------------------
\* the list ms with its elements i and j exchanged
Swap(ms, i, j) ==
    [k \in DOMAIN ms |-> IF k = i THEN ms[j] ELSE IF k = j THEN ms[i] ELSE ms[k]]

\* the tag of the entry of term_count with the stem of t
CanonicalOf(tc, t) == tc[CHOOSE k \in DOMAIN tc : TagEq(tc[k].t, t)].t

\* the rating is positive although a subrating is 0: the value that
\* combined_rating gives to proper multitags only
Rescued(t) ==
    /\ RatingPositive(t.rating)
    /\ \E x \in DOMAIN t.subratings : ~RatingPositive(t.subratings[x])

\* C12: after the clustering of lines 338-356 the proper flag and the rating
\* of the tag of each entry of term_count are those the clustering gives when
\* any two occurrences of the entry's group are exchanged in the list of
\* multitags, and an entry with fewer than half of its occurrences proper is
\* neither flagged proper nor rated by the rescue of combined_rating
C12_CanonicalIndependentOfFirst ==
    pc = "clustered" =>
        \A x \in DOMAIN term_count :
            LET t == term_count[x].t
                g == Group(multitags, t)
            IN  /\ \A i, j \in g :
                      LET other == CanonicalOf(Cluster(Swap(multitags, i, j)), t)
                      IN  /\ other.proper = t.proper
                          /\ RatingEq(other.rating, t.rating)
                /\ 2 * proper_count(multitags, t) < term_count[x].cnt
                      => ~t.proper /\ ~Rescued(t)

=============================================================================
